---------------------------- MODULE Spec2Model ----------------------------
(***************************************************************************)
(* Model of the bitsudoku crate: the bit-packed SudokuSquare               *)
(* (src/src/square.rs) and the SudokuGrid built from 81 of them, with the  *)
(* sudoku_grid! literal helper and the check() validity algorithm          *)
(* (src/src/lib.rs).                                                       *)
(*                                                                         *)
(* A square is the pair SudokuSquare(u8, u16), modelled as the record      *)
(* [p, v] of two naturals kept within their widths.  Results are records   *)
(* [tag, val]: tag is "Ok", an error variant's name, "true"/"false" for a  *)
(* bool, "panic" for an aborted call, "none" when there is no result.      *)
(***************************************************************************)
EXTENDS Integers, Sequences, FiniteSets, TLC

VARIABLES
    sq,        \* the square under test: [p |-> u8, v |-> u16]
    how,       \* how sq was created: "none", "new", "with_value", "grid"
    row0,      \* the row given at creation
    col0,      \* the column given at creation
    last,      \* the last operation on sq and what it returned
    grid,      \* SudokuGrid.0 : index 0..80 -> square
    vals,      \* the values handed to sudoku_grid! (flat form)
    mk,        \* values consumed so far by the flat form
    mrow,      \* the helper's running row counter
    mcol,      \* the helper's running column counter
    pc,        \* position of the grid program
    lastSet,   \* arguments of the last SudokuGrid::set call
    nsets,     \* direct SudokuGrid::set calls made so far
    checkRes,  \* what check() returned
    line,      \* check_row / column sum: which kind of line is summed
    rk,        \* squares of the line summed so far
    result,    \* the running u16 sum
    digits,    \* digits met so far on the line
    repeated,  \* TRUE once a digit was met twice on the line
    accepted   \* the outcome of the comparison with 0x01FF

vars == <<sq, how, row0, col0, last, grid, vals, mk, mrow, mcol, pc, lastSet,
          nsets, checkRes, line, rk, result, digits, repeated, accepted>>

cellVars == <<sq, how, row0, col0, last>>
gridVars == <<grid, vals, mk, mrow, mcol, pc, lastSet, nsets, checkRes>>
lineVars == <<line, rk, result, digits, repeated, accepted>>

----------------------------------------------------------------------------
(* Fixed-width integer arithmetic *)

Pow2(n) == 2 ^ n

U8 == 256
U16 == 65536

RECURSIVE BitAndN(_, _, _)
BitAndN(a, b, n) ==
    IF n = 0 \/ a = 0 \/ b = 0 THEN 0
    ELSE (a % 2) * (b % 2) + 2 * BitAndN(a \div 2, b \div 2, n - 1)

\* the AND of two 4-bit values, tabulated
NibbleAnd == [x \in 0 .. 15 |-> [y \in 0 .. 15 |-> BitAndN(x, y, 4)]]

\* a & b on 16-bit operands, four bits at a time
BitAnd(a, b) ==
    NibbleAnd[a % 16][b % 16]
    + 16 * NibbleAnd[(a \div 16) % 16][(b \div 16) % 16]
    + 256 * NibbleAnd[(a \div 256) % 16][(b \div 256) % 16]
    + 4096 * NibbleAnd[(a \div 4096) % 16][(b \div 4096) % 16]

\* a | b on 16-bit operands
BitOr(a, b) == a + b - BitAnd(a, b)

\* !a on a u16
BitNot16(a) == (U16 - 1) - a

\* a << n on a u16 (bits shifted out are lost)
Shl16(a, n) == (a * Pow2(n)) % U16

\* a << n on a u8
Shl8(a, n) == (a * Pow2(n)) % U8

\* a >> n
Shr(a, n) == a \div Pow2(n)

----------------------------------------------------------------------------
(* square.rs: constants *)

ROW_MASK == 240
COL_MASK == 15
SET_BIT == 512
DIGIT_MASK == 511
BOX_MASK == 30720

Rows == 1 .. 9
Cols == 1 .. 9
Digits == 1 .. 9

Res(tag, val) == [tag |-> tag, val |-> val]
NoRes == Res("none", 0)
Bool(b) == IF b THEN Res("true", 0) ELSE Res("false", 0)

----------------------------------------------------------------------------
(* square.rs: SudokuSquare *)

is_pow_2(num) == (num # 0) /\ (BitAnd(num, num - 1) = 0)

SquareDefault == [p |-> 0, v |-> 511]

box_id(row, col) ==
    CASE row <= 3 /\ col <= 3 -> 1
      [] row <= 3 /\ col <= 6 -> 2
      [] row <= 3 /\ col <= 9 -> 3
      [] row <= 6 /\ col <= 3 -> 4
      [] row <= 6 /\ col <= 6 -> 5
      [] row <= 6 /\ col <= 9 -> 6
      [] row <= 9 /\ col <= 3 -> 7
      [] row <= 9 /\ col <= 6 -> 8
      [] row <= 9 /\ col <= 9 -> 9

position(row, col) == (Shl8(BitAnd(row, 15), 4) + BitAnd(col, 15)) % U8

SquareNewColMajor(row, col) ==
    [p |-> position(row, col),
     v |-> BitOr(Shl16(box_id(col, row), 11), 511)]

SquareNew(row, col) ==
    [p |-> position(row, col),
     v |-> BitOr(Shl16(box_id(row, col), 11), 511)]

\* the bit pattern 0x0001 << (value - 1) of a u16
DigitBit(value) == Shl16(1, value - 1)

with_value(row, col, value) ==
    IF row = 0 \/ col = 0 \/ row > 9 \/ col > 9
    THEN [tag |-> "InvalidPosition", sq |-> SquareDefault]
    ELSE [tag |-> "Ok",
          sq  |-> [SquareNew(row, col) EXCEPT !.v = BitOr(SET_BIT, DigitBit(value))]]

set_position(s, row, col) == [s EXCEPT !.p = position(row, col)]

row(s) == Shr(BitAnd(s.p, ROW_MASK), 4)

col(s) == BitAnd(s.p, COL_MASK)

get_box(s) == Shr(BitAnd(s.v, BOX_MASK), 11) % U8

is_set(s) == BitAnd(s.v, SET_BIT) # 0

\* self.is_set() && (self.0 & (0x0001 << (digit - 1)) != 0): the literal is a
\* u8 here, so digit 9 shifts a u8 by 8: a debug build panics, a release build
\* masks the shift amount to 8 & 7 = 0.  The set of results the builds give.
is(s, digit) ==
    IF ~ is_set(s) THEN {Bool(FALSE)}
    ELSE IF digit - 1 >= 8
         THEN {Res("panic", 0), Bool(BitAnd(s.p, Shl8(1, (digit - 1) % 8)) # 0)}
         ELSE {Bool(BitAnd(s.p, Shl8(1, digit - 1)) # 0)}

get(s) ==
    IF ~ is_set(s) THEN Res("NotSet", 0)
    ELSE LET d == BitAnd(s.v, DIGIT_MASK)
         IN  CASE d = 1   -> Res("Ok", 1)
               [] d = 2   -> Res("Ok", 2)
               [] d = 4   -> Res("Ok", 3)
               [] d = 8   -> Res("Ok", 4)
               [] d = 16  -> Res("Ok", 5)
               [] d = 32  -> Res("Ok", 6)
               [] d = 64  -> Res("Ok", 7)
               [] d = 128 -> Res("Ok", 8)
               [] d = 256 -> Res("Ok", 9)
               [] OTHER   -> Res("InvalidDigit", d)

\* set(): the square afterwards and the result
set(s) ==
    IF ~ is_pow_2(s.v) THEN [sq |-> s, res |-> Res("NonUniqueSet", 0)]
    ELSE IF is_set(s) THEN [sq |-> s, res |-> Res("IsAlreadySet", 0)]
    ELSE LET t == [s EXCEPT !.v = BitOr(s.v, SET_BIT)]
         IN  [sq |-> t, res |-> get(t)]

is_possible(s, value) == BitAnd(s.v, DigitBit(value)) # 0

RECURSIVE count_ones(_)
count_ones(n) == IF n = 0 THEN 0 ELSE (n % 2) + count_ones(n \div 2)

possibilities_number(s) == count_ones(BitAnd(s.v, DIGIT_MASK)) % U8

remove_possibility(s, value) ==
    [s EXCEPT !.v = BitAnd(s.v, BitNot16(DigitBit(value)))]

apply_mask(s, mask) ==
    [s EXCEPT !.v = BitAnd(s.v, BitAnd(mask, DIGIT_MASK))]

\* set_value(digit) is called by SudokuGrid::set but is not in square.rs:
\* the candidate set becomes exactly {digit} and the square is marked assigned;
\* position and box are left as they are.
set_value(s, digit) ==
    [s EXCEPT !.v = BitOr(BitAnd(s.v, BOX_MASK), BitOr(SET_BIT, DigitBit(digit)))]

\* digit_bits() is called by check() and check_row() but is not in square.rs:
\* the raw candidate bits, the low 9 bits of the word.
digit_bits(s) == BitAnd(s.v, DIGIT_MASK)

----------------------------------------------------------------------------
(* lib.rs: SudokuGrid construction *)

\* SudokuGrid::new() and Default::default(): 81 default squares, each given
\* its position with set_position
GridNew ==
    [i \in 0 .. 80 |-> set_position(SquareDefault, (i \div 9) + 1, (i % 9) + 1)]

----------------------------------------------------------------------------
(* Values of the variables a specification does not use *)

Op(op, arg, res) == [op |-> op, arg |-> arg, res |-> res]

CellIdle ==
    /\ sq = SquareDefault
    /\ how = "none"
    /\ row0 = 0
    /\ col0 = 0
    /\ last = Op("none", 0, NoRes)

GridIdle ==
    /\ grid = << >>
    /\ vals = << >>
    /\ mk = 0
    /\ mrow = 1
    /\ mcol = 1
    /\ pc = "idle"
    /\ lastSet = <<0, 0, 0>>
    /\ nsets = 0
    /\ checkRes = NoRes

LineIdle ==
    /\ line = "none"
    /\ rk = 0
    /\ result = 0
    /\ digits = {}
    /\ repeated = FALSE
    /\ accepted = "none"

----------------------------------------------------------------------------
(* One square: creation and the public operations *)

\* masks handed to apply_mask
Masks == {1, 341, 65535}

CreateNew(r, c) ==
    /\ how = "none"
    /\ sq' = SquareNew(r, c)
    /\ how' = "new"
    /\ row0' = r
    /\ col0' = c
    /\ last' = Op("new", 0, NoRes)
    /\ UNCHANGED <<gridVars, lineVars>>

CreateWithValue(r, c, d) ==
    /\ how = "none"
    /\ with_value(r, c, d).tag = "Ok"
    /\ sq' = with_value(r, c, d).sq
    /\ how' = "with_value"
    /\ row0' = r
    /\ col0' = c
    /\ last' = Op("with_value", 0, NoRes)
    /\ UNCHANGED <<gridVars, lineVars>>

\* a square of SudokuGrid::new(), read from the grid
CreateGridCell(r, c) ==
    /\ how = "none"
    /\ sq' = GridNew[9 * (r - 1) + (c - 1)]
    /\ how' = "grid"
    /\ row0' = r
    /\ col0' = c
    /\ last' = Op("grid", 0, NoRes)
    /\ UNCHANGED <<gridVars, lineVars>>

Set ==
    /\ how # "none"
    /\ sq' = set(sq).sq
    /\ last' = Op("set", 0, set(sq).res)
    /\ UNCHANGED <<how, row0, col0, gridVars, lineVars>>

SetValue(d) ==
    /\ how # "none"
    /\ sq' = set_value(sq, d)
    /\ last' = Op("set_value", 0, NoRes)
    /\ UNCHANGED <<how, row0, col0, gridVars, lineVars>>

RemovePossibility(d) ==
    /\ how # "none"
    /\ sq' = remove_possibility(sq, d)
    /\ last' = Op("remove_possibility", 0, NoRes)
    /\ UNCHANGED <<how, row0, col0, gridVars, lineVars>>

ApplyMask(m) ==
    /\ how # "none"
    /\ sq' = apply_mask(sq, m)
    /\ last' = Op("apply_mask", 0, NoRes)
    /\ UNCHANGED <<how, row0, col0, gridVars, lineVars>>

Get ==
    /\ how # "none"
    /\ last' = Op("get", 0, get(sq))
    /\ UNCHANGED <<sq, how, row0, col0, gridVars, lineVars>>

Is(d) ==
    /\ how # "none"
    /\ \E r \in is(sq, d) : last' = Op("is", d, r)
    /\ UNCHANGED <<sq, how, row0, col0, gridVars, lineVars>>

InitCell == CellIdle /\ GridIdle /\ LineIdle

\* any sequence of the public mutating operations on one square
Next ==
    \/ how = "none" /\ \E r \in Rows, c \in Cols : CreateNew(r, c)
    \/ how = "none" /\ \E r \in Rows, c \in Cols : CreateGridCell(r, c)
    \/ how = "none" /\ \E r \in Rows, c \in Cols, d \in Digits : CreateWithValue(r, c, d)
    \/ Set
    \/ \E d \in Digits : SetValue(d)
    \/ \E d \in Digits : RemovePossibility(d)
    \/ \E m \in Masks : ApplyMask(m)
    \/ Get

Spec == InitCell /\ [][Next]_vars

\* a new or grid square, candidates removed one by one, then committed
NextSet ==
    \/ how = "none" /\ \E r \in Rows, c \in Cols : CreateNew(r, c)
    \/ how = "none" /\ \E r \in Rows, c \in Cols : CreateGridCell(r, c)
    \/ \E d \in Digits : RemovePossibility(d)
    \/ Set

SpecSet == InitCell /\ [][NextSet]_vars

\* squares assigned by with_value, set() or set_value, then asked is(digit)
NextIs ==
    \/ how = "none" /\ \E r \in Rows, c \in Cols : CreateNew(r, c)
    \/ how = "none" /\ \E r \in Rows, c \in Cols : CreateGridCell(r, c)
    \/ how = "none" /\ \E r \in Rows, c \in Cols, d \in Digits : CreateWithValue(r, c, d)
    \/ \E d \in Digits : SetValue(d)
    \/ \E d \in Digits : Is(d)

SpecIs == InitCell /\ [][NextIs]_vars

----------------------------------------------------------------------------
(* lib.rs: SudokuGrid::set, get_row, check_row, check *)

\* SudokuGrid::set: index = 9*(row-1) + (col-1), then set_value on that square;
\* an index outside the array panics
GridSet(g, r, c, digit) ==
    LET index == 9 * (r - 1) + (c - 1)
    IN  IF index \in DOMAIN g
        THEN [tag |-> "Ok", grid |-> [g EXCEPT ![index] = set_value(g[index], digit)]]
        ELSE [tag |-> "panic", grid |-> g]

\* get_row: the squares at offset .. offset+8, as a sequence
get_row(g, r) == [j \in 1 .. 9 |-> g[9 * (r - 1) + (j - 1)]]

RECURSIVE SumBits(_, _)
SumBits(squares, n) ==
    IF n = 0 THEN 0 ELSE SumBits(squares, n - 1) + digit_bits(squares[n])

\* check_row: the u16 sum of the nine digit_bits (at most 9 * 511, so the
\* sum stays below 2^16) compared with 0x01FF
check_row(g, r) == SumBits(get_row(g, r), 9) = 511

\* check(), one square at a time in the order of its loops: k = 9*(i-1) + j.
\* colr and boxr are col_results and box_results (indices 0..8), res the
\* running result.  get_box() - 1 is a u8 subtraction: with get_box() = 0 a
\* debug build panics on the subtraction, a release build wraps to 255 and
\* panics on the index; an index above 8 panics too.
RECURSIVE CheckFrom(_, _, _, _, _)
CheckFrom(g, k, colr, boxr, res) ==
    IF k = 81
    THEN Res("Ok", IF /\ res
                      /\ \A j \in 0 .. 8 : colr[j] = 511
                      /\ \A b \in 0 .. 8 : boxr[b] = 511
                   THEN 1 ELSE 0)
    ELSE LET i    == (k \div 9) + 1
             j    == k % 9
             s    == g[k]
             res1 == IF j = 0 THEN res /\ check_row(g, i) ELSE res
             col1 == [colr EXCEPT ![j] = colr[j] + digit_bits(s)]
         IN  IF get_box(s) = 0 \/ get_box(s) - 1 > 8
             THEN Res("panic", 0)
             ELSE CheckFrom(g, k + 1, col1,
                            [boxr EXCEPT ![get_box(s) - 1] = boxr[get_box(s) - 1] + digit_bits(s)],
                            res1)

check(g) == CheckFrom(g, 0, [j \in 0 .. 8 |-> 0], [b \in 0 .. 8 |-> 0], TRUE)

----------------------------------------------------------------------------
(* lib.rs: sudoku_grid!, flat form *)

\* the running counters after one value: if col == 9 { col = 0; row += 1 } col += 1
MacroAdvanceWrapAt8(r, c) ==
    IF c = 8 THEN <<r + 1, 1>> ELSE <<r, c + 1>>

MacroAdvance(r, c) ==
    IF c = 9 THEN <<r + 1, 0 + 1>> ELSE <<r, c + 1>>

----------------------------------------------------------------------------
(* Grid inputs *)

\* the longest value list handed to the flat form
MaxValues == 83

\* the most direct SudokuGrid::set calls made on a fresh grid
MaxSets == 2

\* the completed solution of test_macro_creation_method_2
Solved ==
    << 9, 8, 5, 4, 2, 3, 7, 1, 6,
       1, 3, 4, 6, 7, 9, 5, 8, 2,
       6, 2, 7, 8, 1, 5, 3, 9, 4,
       3, 7, 6, 9, 4, 2, 8, 5, 1,
       5, 1, 9, 7, 8, 6, 2, 4, 3,
       8, 4, 2, 3, 5, 1, 9, 6, 7,
       4, 9, 3, 5, 6, 7, 1, 2, 8,
       2, 5, 8, 1, 3, 4, 6, 7, 9,
       7, 6, 1, 2, 9, 8, 4, 3, 5 >>

\* test_check_false_solution: row 2, column 2 changed from 3 to 4
FalseSolution == [Solved EXCEPT ![11] = 4]

\* every row 1..9: rows are right, columns are not
SameRows == [k \in 1 .. 81 |-> ((k - 1) % 9) + 1]

\* each row the one above shifted by one: rows and columns are right, boxes
\* are not
ShiftedRows == [k \in 1 .. 81 |-> ((((k - 1) % 9) + ((k - 1) \div 9)) % 9) + 1]

Bases == {Solved, FalseSolution, SameRows, ShiftedRows}

\* the first n values of a base, the base repeated beyond 81
Take(base, n) == [k \in 1 .. n |-> base[((k - 1) % 81) + 1]]

Inputs == {Take(base, n) : base \in Bases, n \in 0 .. MaxValues}

\* the squares direct SudokuGrid::set calls are tried on
SetCells == {<<1, 1>>, <<5, 5>>, <<9, 9>>}

----------------------------------------------------------------------------
(* The grid program: build a grid, then check it *)

InitGrid ==
    /\ CellIdle
    /\ LineIdle
    /\ grid = GridNew
    /\ vals \in Inputs
    /\ mk = 0
    /\ mrow = 1
    /\ mcol = 1
    /\ pc = "fill"
    /\ lastSet = <<0, 0, 0>>
    /\ nsets = 0
    /\ checkRes = NoRes

\* one repetition of the flat form's body with the next value
MacroStep ==
    /\ pc = "fill"
    /\ mk < Len(vals)
    /\ IF mrow = 10
       THEN /\ pc' = "panic"
            /\ UNCHANGED <<grid, mk, mrow, mcol, lastSet>>
       ELSE LET placed == GridSet(grid, mrow, mcol, vals[mk + 1])
                next   == MacroAdvance(mrow, mcol)
            IN  /\ lastSet' = <<mrow, mcol, vals[mk + 1]>>
                /\ IF placed.tag = "Ok"
                   THEN /\ grid' = placed.grid
                        /\ mk' = mk + 1
                        /\ mrow' = next[1]
                        /\ mcol' = next[2]
                        /\ pc' = pc
                   ELSE /\ pc' = "panic"
                        /\ UNCHANGED <<grid, mk, mrow, mcol>>
    /\ UNCHANGED <<vals, nsets, checkRes, cellVars, lineVars>>

\* the flat form's last expression: the grid is handed to the caller
MacroDone ==
    /\ pc = "fill"
    /\ mk = Len(vals)
    /\ pc' = "built"
    /\ UNCHANGED <<grid, vals, mk, mrow, mcol, lastSet, nsets, checkRes,
                   cellVars, lineVars>>

\* a direct SudokuGrid::set call on a grid from SudokuGrid::new()
DirectSet(r, c, d) ==
    /\ pc = "built"
    /\ Len(vals) = 0
    /\ nsets < MaxSets
    /\ GridSet(grid, r, c, d).tag = "Ok"
    /\ grid' = GridSet(grid, r, c, d).grid
    /\ lastSet' = <<r, c, d>>
    /\ nsets' = nsets + 1
    /\ checkRes' = NoRes
    /\ UNCHANGED <<vals, mk, mrow, mcol, pc, cellVars, lineVars>>

Check ==
    /\ pc = "built"
    /\ checkRes' = check(grid)
    /\ pc' = IF check(grid).tag = "panic" THEN "aborted" ELSE "built"
    /\ UNCHANGED <<grid, vals, mk, mrow, mcol, lastSet, nsets, cellVars, lineVars>>

NextGrid ==
    \/ MacroStep
    \/ MacroDone
    \/ \E p \in SetCells, d \in Digits : DirectSet(p[1], p[2], d)
    \/ Check

SpecGrid == InitGrid /\ [][NextGrid]_vars

----------------------------------------------------------------------------
(* The additive test of check_row and of check()'s column sums, on one line
   of nine assigned squares *)

\* result += sq.digit_bits() on a u16
LineAddOverwrite(acc, bits) == bits

LineAdd(acc, bits) == (acc + bits) % U16

\* the k-th square (k = 1..9) of the line, assigned digit d: placed on a grid
\* with SudokuGrid::set, or built with with_value
LineSquares(kind, k, d) ==
    LET r == IF kind = "row" THEN 1 ELSE k
        c == IF kind = "row" THEN k ELSE 1
    IN  {GridSet(GridNew, r, c, d).grid[9 * (r - 1) + (c - 1)],
         with_value(r, c, d).sq}

InitLine ==
    /\ CellIdle
    /\ GridIdle
    /\ line \in {"row", "col"}
    /\ rk = 0
    /\ result = 0
    /\ digits = {}
    /\ repeated = FALSE
    /\ accepted = "none"

\* one turn of the summing loop, over a square holding digit d
LineStep(d) ==
    /\ rk < 9
    /\ \E s \in LineSquares(line, rk + 1, d) :
           result' = LineAdd(result, digit_bits(s))
    /\ rk' = rk + 1
    /\ digits' = digits \cup {d}
    /\ repeated' = (repeated \/ d \in digits)
    /\ UNCHANGED <<line, accepted, cellVars, gridVars>>

\* result == 0x01FF
LineTest ==
    /\ rk = 9
    /\ accepted = "none"
    /\ accepted' = IF result = 511 THEN "true" ELSE "false"
    /\ UNCHANGED <<line, rk, result, digits, repeated, cellVars, gridVars>>

NextLine ==
    \/ \E d \in Digits : LineStep(d)
    \/ LineTest

SpecLine == InitLine /\ [][NextLine]_vars

----------------------------------------------------------------------------
(* What the properties are stated with *)

\* the box of a position, as test_box_correctly_set computes it
BoxOf(r, c) == 1 + 3 * ((r - 1) \div 3) + ((c - 1) \div 3)

\* the 9-bit candidate set of a square
Cands(s) == s.v % 512

\* the digits of a candidate set
CandDigits(s) == {d \in Digits : (Cands(s) \div Pow2(d - 1)) % 2 = 1}

\* the 27 lines of a grid, as sets of indices into a flat list of 81 values
RowLine(r) == {9 * (r - 1) + c : c \in 1 .. 9}
ColLine(c) == {9 * (r - 1) + c : r \in 1 .. 9}
BoxLine(b) == {k \in 1 .. 81 : BoxOf(((k - 1) \div 9) + 1, ((k - 1) % 9) + 1) = b}
Lines == {RowLine(r) : r \in 1 .. 9} \cup {ColLine(c) : c \in 1 .. 9}
             \cup {BoxLine(b) : b \in 1 .. 9}

\* every row, column and box holds each digit exactly once
ValidSolution(v) == \A l \in Lines : {v[k] : k \in l} = Digits

----------------------------------------------------------------------------
(* Properties *)

\* C1: on a grid whose 81 squares were each given a digit, check() returns
\* Ok(true) if every row, column and box holds each digit exactly once, and
\* Ok(false) otherwise.
C1_CheckDecidesValidity ==
    (Len(vals) = 81 /\ mk = 81 /\ checkRes # NoRes)
        => checkRes = Res("Ok", IF ValidSolution(vals) THEN 1 ELSE 0)

\* C2: on every grid reached from SudokuGrid::new() by set calls (none
\* included), check() completes with Ok(true) or Ok(false): no panic, no Err.
C2_CheckReturnsBool == checkRes.tag \in {"none", "Ok"}

\* C3: the flat form places its k-th value (from 0) with set at row
\* 1 + k div 9, column 1 + k mod 9 and assigns no other square; with more than
\* 81 values it panics on reaching the 82nd, before placing it.
C3_FlatFormRowMajor ==
    nsets = 0 =>
        /\ mk <= 81 /\ mk <= Len(vals)
        /\ \A i \in 0 .. 80 :
              /\ row(grid[i]) = 1 + (i \div 9) /\ col(grid[i]) = 1 + (i % 9)
              /\ is_set(grid[i]) <=> i < mk
              /\ i < mk => get(grid[i]) = Res("Ok", vals[i + 1])
        /\ mk > 0 => lastSet = <<1 + ((mk - 1) \div 9), 1 + ((mk - 1) % 9), vals[mk]>>
        /\ pc = "panic" => (mk = 81 /\ Len(vals) > 81)
        /\ (pc = "fill" /\ mk = 81 /\ Len(vals) > 81) => mrow = 10
        /\ pc \in {"built", "aborted"} => (mk = Len(vals) /\ Len(vals) <= 81)

C3_Witness ==
    /\ pc = "panic"
    /\ Len(vals) = 82
    /\ mk = 81
    /\ \A i \in 0 .. 80 : get(grid[i]) = Res("Ok", vals[i + 1])

\* C4: SudokuSquare::new(row, col) decodes back to its inputs, with the box
\* 1 + 3*((row-1) div 3) + ((col-1) div 3), unassigned, with 9 candidates.
C4_NewDecodes ==
    last.op = "new" =>
        /\ row(sq) = row0
        /\ col(sq) = col0
        /\ get_box(sq) = BoxOf(row0, col0)
        /\ ~ is_set(sq)
        /\ possibilities_number(sq) = 9

C4_Witness == last.op = "new" /\ row0 = 9 /\ col0 = 4 /\ get_box(sq) = 8

\* C5: set() on an unassigned square with exactly one candidate d returns
\* Ok(d) and assigns the square; on an unassigned square with 0 or at least 2
\* candidates it returns Err(NonUniqueSet) and changes nothing; on an assigned
\* square it returns Err(IsAlreadySet) and changes nothing.
C5_SetContract ==
    [][last'.op = "set" =>
          IF ~ is_set(sq) /\ Cardinality(CandDigits(sq)) = 1
          THEN /\ \E d \in CandDigits(sq) : last'.res = Res("Ok", d)
               /\ is_set(sq')
          ELSE IF ~ is_set(sq)
          THEN last'.res = Res("NonUniqueSet", 0) /\ sq' = sq
          ELSE last'.res = Res("IsAlreadySet", 0) /\ sq' = sq]_vars

\* C6: is(digit) is true exactly when the square is assigned and get()
\* returns that digit, whatever the square's row and column.
C6_IsMatchesGet ==
    last.op = "is" =>
        last.res = Bool(is_set(sq) /\ get(sq) = Res("Ok", last.arg))

\* C7: an assigned square holds exactly one candidate digit d, and get()
\* returns Ok(d) with d in 1..9, never Err(InvalidDigit).
C7_AssignedHasOneDigit ==
    (how # "none" /\ is_set(sq)) =>
        /\ Cardinality(CandDigits(sq)) = 1
        /\ get(sq).tag = "Ok"
        /\ CandDigits(sq) = {get(sq).val}

\* C8: once is_set() is true it stays true, whatever operation follows.
C8_AssignedStaysAssigned == [][is_set(sq) => is_set(sq')]_vars

\* C9: however a square was created and whatever was done to it, get_box()
\* is 1 + 3*((row-1) div 3) + ((col-1) div 3), in 1..9, and row() and col()
\* are those given at creation.
C9_BoxAndPositionFixed ==
    how # "none" =>
        /\ get_box(sq) \in 1 .. 9
        /\ get_box(sq) = BoxOf(row0, col0)
        /\ row(sq) = row0
        /\ col(sq) = col0

=============================================================================
